---- MODULE Spec2Model ----
(***************************************************************************)
(* Model of the command-line to-do list manager (src/src/main.rs).         *)
(*                                                                         *)
(* Strings are sequences of one-character strings, so that joining         *)
(* arguments, parsing a task number and writing/reading the JSON file are  *)
(* computed character by character, as the program does.                   *)
(*                                                                         *)
(* The storage file todos.json is the only state that survives a run of    *)
(* the program.  Spec runs one invocation at a time (a whole handler is    *)
(* one step).  SpecConc runs two invocations side by side; there a step is *)
(* the part of a handler up to and including its read of the file, or the  *)
(* part from there to its end (the write).  SpecRoundTrip applies          *)
(* save_todos and then load_todos to lists of tasks.                       *)
(***************************************************************************)
EXTENDS Integers, Sequences, FiniteSets, TLC

VARIABLES file, last, procs, log, mem

vars == <<file, last, procs, log, mem>>

(***************************************************************************)
(* Bounds of the model.                                                    *)
(***************************************************************************)
\* `add` is offered only while the stored list is shorter than this.
MaxTasks == 3
\* Longest list an initial file of the two-invocation specification holds.
MaxConcTasks == 1
\* Longest list SpecRoundTrip saves.
MaxRoundTripTasks == 2

(***************************************************************************)
(* Characters and words.                                                   *)
(***************************************************************************)
QUOTE == "\""
BSL == "\\"
NL == "\n"
SP == " "

W_add == <<"a", "d", "d">>
W_list == <<"l", "i", "s", "t">>
W_done == <<"d", "o", "n", "e">>
W_help == <<"h", "e", "l", "p">>
W_task == <<"t", "a", "s", "k">>
W_completed == <<"c", "o", "m", "p", "l", "e", "t", "e", "d">>
W_true == <<"t", "r", "u", "e">>
W_false == <<"f", "a", "l", "s", "e">>

\* struct Todo { task: String, completed: bool }
Todo(task, completed) == [task |-> task, completed |-> completed]

(***************************************************************************)
(* [String]::join(sep): the strings with sep between neighbours.           *)
(***************************************************************************)
\* Variant: the strings run together, the separator left out.
RECURSIVE join_nosep(_, _)
join_nosep(strs, sep) ==
    IF strs = <<>> THEN <<>> ELSE strs[1] \o join_nosep(Tail(strs), sep)

RECURSIVE join(_, _)
join(strs, sep) ==
    IF strs = <<>> THEN <<>>
    ELSE IF Len(strs) = 1 THEN strs[1]
    ELSE strs[1] \o sep \o join(Tail(strs), sep)

(***************************************************************************)
(* str::parse::<usize>(): an optional leading '+', then one or more        *)
(* decimal digits and nothing else.  '-' is not accepted for an unsigned   *)
(* type.  (No token of the model is long enough to overflow usize.)        *)
(***************************************************************************)
DigitVal(c) ==
    CASE c = "0" -> 0 [] c = "1" -> 1 [] c = "2" -> 2 [] c = "3" -> 3
      [] c = "4" -> 4 [] c = "5" -> 5 [] c = "6" -> 6 [] c = "7" -> 7
      [] c = "8" -> 8 [] c = "9" -> 9 [] OTHER -> -1

RECURSIVE DigitsValue(_, _)
DigitsValue(s, acc) ==
    IF s = <<>> THEN acc
    ELSE IF DigitVal(Head(s)) < 0 THEN -1
    ELSE DigitsValue(Tail(s), acc * 10 + DigitVal(Head(s)))

\* Variant: whitespace around the number is trimmed before parsing.
parse_usize_trim(s) ==
    LET digits == SelectSeq(s, LAMBDA c : c # SP)
        v == IF digits = <<>> THEN -1 ELSE DigitsValue(digits, 0)
    IN  IF v < 0 THEN [ok |-> FALSE, num |-> 0] ELSE [ok |-> TRUE, num |-> v]

parse_usize(s) ==
    LET digits == IF s # <<>> /\ Head(s) = "+" THEN Tail(s) ELSE s
        v == IF digits = <<>> THEN -1 ELSE DigitsValue(digits, 0)
    IN  IF v < 0 THEN [ok |-> FALSE, num |-> 0] ELSE [ok |-> TRUE, num |-> v]

(***************************************************************************)
(* serde_json::to_string_pretty(&[Todo]): a JSON array of objects with the *)
(* fields "task" and "completed" in declaration order, two-space indent,   *)
(* no trailing newline; an empty list is "[]".  Inside a string, '"' and   *)
(* '\' and the control characters are written as escapes.                  *)
(***************************************************************************)
\* Variant: '"' is written as it is.
EscapeChar_noquote(c) ==
    CASE c = BSL   -> <<BSL, BSL>>
      [] c = NL    -> <<BSL, "n">>
      [] c = "\t"  -> <<BSL, "t">>
      [] c = "\r"  -> <<BSL, "r">>
      [] c = "\f"  -> <<BSL, "f">>
      [] OTHER     -> <<c>>

EscapeChar(c) ==
    CASE c = QUOTE -> <<BSL, QUOTE>>
      [] c = BSL   -> <<BSL, BSL>>
      [] c = NL    -> <<BSL, "n">>
      [] c = "\t"  -> <<BSL, "t">>
      [] c = "\r"  -> <<BSL, "r">>
      [] c = "\f"  -> <<BSL, "f">>
      [] OTHER     -> <<c>>

RECURSIVE EscapeStr(_)
EscapeStr(s) == IF s = <<>> THEN <<>> ELSE EscapeChar(Head(s)) \o EscapeStr(Tail(s))

JsonString(s) == <<QUOTE>> \o EscapeStr(s) \o <<QUOTE>>

Indent1 == <<SP, SP>>
Indent2 == <<SP, SP, SP, SP>>

JsonTodo(t) ==
    <<"{", NL>> \o Indent2 \o JsonString(W_task) \o <<":", SP>> \o JsonString(t.task)
    \o <<",", NL>> \o Indent2 \o JsonString(W_completed) \o <<":", SP>>
    \o (IF t.completed THEN W_true ELSE W_false)
    \o <<NL>> \o Indent1 \o <<"}">>

RECURSIVE JsonItems(_)
JsonItems(todos) ==
    IF todos = <<>> THEN <<>>
    ELSE <<NL>> \o Indent1 \o JsonTodo(Head(todos))
         \o (IF Len(todos) > 1 THEN <<",">> ELSE <<>>) \o JsonItems(Tail(todos))

to_string_pretty(todos) ==
    IF todos = <<>> THEN <<"[", "]">>
    ELSE <<"[">> \o JsonItems(todos) \o <<NL, "]">>

(***************************************************************************)
(* serde_json::from_str::<Vec<Todo>>(&data).  A recursive-descent reading  *)
(* of the text: whitespace is skipped between tokens, an object's fields   *)
(* may come in either order, a field given twice or left out is an error,  *)
(* a field of another name is skipped, a trailing comma or trailing text   *)
(* is an error.  Each parser returns [ok, next, val]: next is the index    *)
(* after what was read.  The escapes \b and \uXXXX, numbers, null and      *)
(* nested values do not occur in any file of the model.                    *)
(*                                                                         *)
(* A parser that goes on from an intermediate result is written as an      *)
(* operator taking that result (AfterKey, AfterValue, ...).                *)
(***************************************************************************)
Fail == [ok |-> FALSE, next |-> 0, val |-> <<>>]
Got(next, val) == [ok |-> TRUE, next |-> next, val |-> val]

IsWs(c) == c \in {SP, NL, "\t", "\r"}
IsControl(c) == c \in {NL, "\t", "\r", "\f"}

At(d, i) == IF i <= Len(d) THEN d[i] ELSE "EOF"

RECURSIVE SkipWs(_, _)
SkipWs(d, i) == IF i <= Len(d) /\ IsWs(d[i]) THEN SkipWs(d, i + 1) ELSE i

UnescapeChar(c) ==
    CASE c = QUOTE -> QUOTE
      [] c = BSL   -> BSL
      [] c = "/"   -> "/"
      [] c = "n"   -> NL
      [] c = "t"   -> "\t"
      [] c = "r"   -> "\r"
      [] c = "f"   -> "\f"
      [] OTHER     -> "BAD"

RECURSIVE ParseStrBody(_, _, _)
ParseStrBody(d, i, acc) ==
    IF i > Len(d) THEN Fail
    ELSE IF d[i] = QUOTE THEN Got(i + 1, acc)
    ELSE IF d[i] = BSL THEN
        IF UnescapeChar(At(d, i + 1)) = "BAD" THEN Fail
        ELSE ParseStrBody(d, i + 2, Append(acc, UnescapeChar(d[i + 1])))
    ELSE IF IsControl(d[i]) THEN Fail
    ELSE ParseStrBody(d, i + 1, Append(acc, d[i]))

ParseString(d, i) == IF At(d, i) = QUOTE THEN ParseStrBody(d, i + 1, <<>>) ELSE Fail

HasLit(d, i, lit) ==
    /\ i + Len(lit) - 1 <= Len(d)
    /\ SubSeq(d, i, i + Len(lit) - 1) = lit

ParseBool(d, i) ==
    IF HasLit(d, i, W_true) THEN Got(i + Len(W_true), TRUE)
    ELSE IF HasLit(d, i, W_false) THEN Got(i + Len(W_false), FALSE)
    ELSE Fail

\* The value of a field the struct does not have: read and dropped.
ParseIgnored(d, i) == IF At(d, i) = QUOTE THEN ParseString(d, i) ELSE ParseBool(d, i)

\* The value of the field named key, at v.
ParseValue(d, key, v) ==
    IF key = W_task THEN ParseString(d, v)
    ELSE IF key = W_completed THEN ParseBool(d, v)
    ELSE ParseIgnored(d, v)

\* The members of an object from the key at i on.  task and completed are
\* <<>> while not yet read and <<value>> afterwards.
RECURSIVE ParseMembers(_, _, _, _)

\* e is after a member: ',' and the next member, or '}' with both fields read.
AfterMember(d, e, task, completed) ==
    IF At(d, e) = "," THEN ParseMembers(d, SkipWs(d, e + 1), task, completed)
    ELSE IF At(d, e) = "}" /\ task # <<>> /\ completed # <<>>
    THEN Got(e + 1, Todo(task[1], completed[1]))
    ELSE Fail

\* r is the result of reading key's value.
AfterValue(d, key, r, task, completed) ==
    IF ~r.ok THEN Fail
    ELSE AfterMember(d, SkipWs(d, r.next),
                     IF key = W_task THEN <<r.val>> ELSE task,
                     IF key = W_completed THEN <<r.val>> ELSE completed)

\* k is the result of reading a key: a field read before is an error, then
\* ':' and the value.
AfterKey(d, k, task, completed) ==
    IF ~k.ok THEN Fail
    ELSE IF (k.val = W_task /\ task # <<>>) \/ (k.val = W_completed /\ completed # <<>>)
    THEN Fail
    ELSE IF At(d, SkipWs(d, k.next)) # ":" THEN Fail
    ELSE AfterValue(d, k.val, ParseValue(d, k.val, SkipWs(d, SkipWs(d, k.next) + 1)),
                    task, completed)

ParseMembers(d, i, task, completed) == AfterKey(d, ParseString(d, i), task, completed)

ParseTodo(d, i) ==
    IF At(d, i) # "{" THEN Fail
    ELSE ParseMembers(d, SkipWs(d, i + 1), <<>>, <<>>)

\* The elements of the array from the element at i on.
RECURSIVE ParseElems(_, _, _)

\* e is after an element: ',' and the next element, or ']'.
AfterElemSep(d, e, acc) ==
    IF At(d, e) = "," THEN ParseElems(d, SkipWs(d, e + 1), acc)
    ELSE IF At(d, e) = "]" THEN Got(e + 1, acc)
    ELSE Fail

\* t is the result of reading an element.
AfterElem(d, t, acc) ==
    IF ~t.ok THEN Fail ELSE AfterElemSep(d, SkipWs(d, t.next), Append(acc, t.val))

ParseElems(d, i, acc) == AfterElem(d, ParseTodo(d, i), acc)

\* j is after '[' .
ParseArray(d, j) ==
    IF At(d, j) = "]" THEN Got(j + 1, <<>>) ELSE ParseElems(d, j, <<>>)

\* r is the result of reading the array: only whitespace may follow.
EndOfInput(d, r) == IF r.ok /\ SkipWs(d, r.next) > Len(d) THEN r ELSE Fail

from_str(d) ==
    IF At(d, SkipWs(d, 1)) # "[" THEN Fail
    ELSE EndOfInput(d, ParseArray(d, SkipWs(d, SkipWs(d, 1) + 1)))

(***************************************************************************)
(* The storage file and the outcomes of reading and writing it.            *)
(*                                                                         *)
(* A file is [exists, content].  What the file system does to one          *)
(* invocation is an input of the step:                                     *)
(*   "ok"            reads and writes succeed;                             *)
(*   "read_err"      fs::read_to_string fails with an error other than     *)
(*                   NotFound (permission denied, not UTF-8, an I/O error);*)
(*   "write_denied"  fs::write fails before touching the file;             *)
(*   "write_trunc"   fs::write creates/truncates the file and then fails.  *)
(* An invocation ends "Ok" (main returns Ok(()), exit status 0), "Err"     *)
(* (main returns the io::Error, exit status 1) or "panic" (an expect()     *)
(* failed, exit status 101).                                               *)
(***************************************************************************)
Absent == [exists |-> FALSE, content |-> <<>>]
Present(content) == [exists |-> TRUE, content |-> content]

IoOutcomes == {"ok", "read_err", "write_denied", "write_trunc"}

\* .expect("Failed to parse todos.json. ...") on the result of from_str.
expect_parsed(r) ==
    IF r.ok THEN [kind |-> "Ok", todos |-> r.val] ELSE [kind |-> "panic", todos |-> <<>>]

\* Variant: a file that does not parse is read as an empty list.
load_todos_default(f, io) ==
    IF io = "read_err" THEN [kind |-> "Err", todos |-> <<>>]
    ELSE IF ~f.exists THEN [kind |-> "Ok", todos |-> <<>>]
    ELSE [kind |-> "Ok", todos |-> from_str(f.content).val]

load_todos(f, io) ==
    IF io = "read_err" THEN [kind |-> "Err", todos |-> <<>>]
    ELSE IF ~f.exists THEN [kind |-> "Ok", todos |-> <<>>]
    ELSE expect_parsed(from_str(f.content))

save_todos(f, todos, io) ==
    IF io = "write_denied" THEN [file |-> f, res |-> "Err"]
    ELSE IF io = "write_trunc" THEN [file |-> Present(<<>>), res |-> "Err"]
    ELSE [file |-> Present(to_string_pretty(todos)), res |-> "Ok"]

(***************************************************************************)
(* The handlers.  args is the whole argument list: args[1] is the program  *)
(* name, args[2] the command word (Rust's args[0] and args[1]).  An        *)
(* invocation returns an Outcome: the file afterwards, how the process     *)
(* ends, the lines printed (each a tuple: the format string, then its      *)
(* arguments) and the number of calls of fs::write.                        *)
(*                                                                         *)
(* add_task and complete_task are each given in two parts, cut after the   *)
(* call of load_todos: the part up to there returns [pc, exit, out,        *)
(* todos], with pc = "exited" when the handler has returned and "loaded"   *)
(* when it holds the loaded list and goes on.                              *)
(***************************************************************************)
Outcome(f, exit, out, writes) ==
    [file |-> f, exit |-> exit, out |-> out, writes |-> writes]

Exited(exit, out) == [pc |-> "exited", exit |-> exit, out |-> out, todos |-> <<>>]
Loaded(todos) == [pc |-> "loaded", exit |-> "Ok", out |-> <<>>, todos |-> todos]

\* `load_todos()?`: a failed load ends the handler with that failure.
TryLoaded(l) == IF l.kind = "Ok" THEN Loaded(l.todos) ELSE Exited(l.kind, <<>>)

\* What a handler returns after its call of save_todos, whose result is s.
Saved(s, out) == Outcome(s.file, s.res, out, 1)

print_help ==
    << <<"\nRust To-Do List Manager">>,
       <<"Usage: todo_cli <COMMAND> [ARGUMENTS]">>,
       <<"\nCommands:">>,
       <<"  add \"<task>\"   - Adds a new task to the list.">>,
       <<"  list           - Lists all tasks.">>,
       <<"  done <number>  - Marks a task as complete.">>,
       <<"  help           - Shows this help message.">> >>

\* Variant: the check for a missing description is left out.
add_task_load_nocheck(args, f, io) == TryLoaded(load_todos(f, io))

add_task_load(args, f, io) ==
    IF Len(args) < 3
    THEN Exited("Ok", << <<"Error: Missing task description for 'add' command.">>,
                         <<"Example: todo_cli add \"Buy milk\"">> >>)
    ELSE TryLoaded(load_todos(f, io))

\* Variant: the new task is put first.
add_task_save_front(args, loaded, f, io) ==
    LET new_todo == Todo(join(SubSeq(args, 3, Len(args)), <<SP>>), FALSE)
    IN  Saved(save_todos(f, <<new_todo>> \o loaded, io),
              << <<"Adding task: {}", new_todo.task>> >>)

\* Variant: the file is read again right before the write.
add_task_save_reload(args, loaded, f, io) ==
    LET new_todo == Todo(join(SubSeq(args, 3, Len(args)), <<SP>>), FALSE)
    IN  Saved(save_todos(f, Append(load_todos(f, "ok").todos, new_todo), io),
              << <<"Adding task: {}", new_todo.task>> >>)

add_task_save(args, loaded, f, io) ==
    LET task_description == join(SubSeq(args, 3, Len(args)), <<SP>>)
        new_todo == Todo(task_description, FALSE)
    IN  Saved(save_todos(f, Append(loaded, new_todo), io),
              << <<"Adding task: {}", new_todo.task>> >>)

RECURSIVE list_lines(_, _)
list_lines(todos, i) ==
    IF i > Len(todos) THEN <<>>
    ELSE << <<"{} {}. {}", IF todos[i].completed THEN "[x]" ELSE "[ ]", i, todos[i].task>> >>
         \o list_lines(todos, i + 1)

\* list_tasks after its call of load_todos, whose result is l.
list_print(f, l) ==
    IF l.kind # "Ok" THEN Outcome(f, l.kind, <<>>, 0)
    ELSE IF l.todos = <<>>
    THEN Outcome(f, "Ok", << <<"No tasks yet! Add one with the 'add' command.">> >>, 0)
    ELSE Outcome(f, "Ok",
                 << <<"--- To-Do List ---">> >> \o list_lines(l.todos, 1)
                 \o << <<"------------------">> >>, 0)

list_tasks(f, io) == list_print(f, load_todos(f, io))

complete_task_load(args, f, io) ==
    IF Len(args) < 3
    THEN Exited("Ok", << <<"Error: Missing task number for 'done' command.">>,
                         <<"Example: todo_cli done 2">> >>)
    ELSE LET task_number_str == args[3]
             parsed == parse_usize(task_number_str)
         IN
         IF ~parsed.ok
         THEN Exited("Ok", << <<"Error: '{}' is not a valid number.", task_number_str>> >>)
         ELSE IF parsed.num = 0
         THEN Exited("Ok", << <<"Error: Task number must be 1 or greater.">> >>)
         ELSE TryLoaded(load_todos(f, io))

\* Variant: the task number is used as the index.
complete_task_save_offbyone(args, loaded, f, io) ==
    LET task_number == parse_usize(args[3]).num
        task_index == task_number
    IN
    IF task_index < Len(loaded)
    THEN IF loaded[task_index + 1].completed
         THEN Outcome(f, "Ok", << <<"Task {} was already completed.", task_number>> >>, 0)
         ELSE Saved(save_todos(f, [loaded EXCEPT ![task_index + 1].completed = TRUE], io),
                    << <<"Completed task {}: {}", task_number,
                         loaded[task_index + 1].task>> >>)
    ELSE Outcome(f, "Ok", << <<"Error: No task found with number {}.", task_number>> >>, 0)

\* Variant: a completed task is marked and saved again.
complete_task_save_always(args, loaded, f, io) ==
    LET task_number == parse_usize(args[3]).num
        task_index == task_number - 1
    IN
    IF task_index < Len(loaded)
    THEN Saved(save_todos(f, [loaded EXCEPT ![task_index + 1].completed = TRUE], io),
               << <<"Completed task {}: {}", task_number, loaded[task_index + 1].task>> >>)
    ELSE Outcome(f, "Ok", << <<"Error: No task found with number {}.", task_number>> >>, 0)

\* Variant: the flag is flipped instead of set.
complete_task_save_toggle(args, loaded, f, io) ==
    LET task_number == parse_usize(args[3]).num
        task_index == task_number - 1
    IN
    IF task_index < Len(loaded)
    THEN Saved(save_todos(f, [loaded EXCEPT ![task_index + 1].completed =
                                               ~loaded[task_index + 1].completed], io),
               << <<"Completed task {}: {}", task_number, loaded[task_index + 1].task>> >>)
    ELSE Outcome(f, "Ok", << <<"Error: No task found with number {}.", task_number>> >>, 0)

complete_task_save(args, loaded, f, io) ==
    LET task_number == parse_usize(args[3]).num
        task_index == task_number - 1
    IN
    IF task_index < Len(loaded)
    THEN IF loaded[task_index + 1].completed
         THEN Outcome(f, "Ok", << <<"Task {} was already completed.", task_number>> >>, 0)
         ELSE Saved(save_todos(f, [loaded EXCEPT ![task_index + 1].completed = TRUE], io),
                    << <<"Completed task {}: {}", task_number,
                         loaded[task_index + 1].task>> >>)
    ELSE Outcome(f, "Ok", << <<"Error: No task found with number {}.", task_number>> >>, 0)

\* What main's match arm returns for a handler that only reads (list).
Returned(r) == Exited(r.exit, r.out)

\* main up to and including the handler's call of load_todos.
main_load(args, f, io) ==
    IF Len(args) < 2 THEN Exited("Ok", print_help)
    ELSE IF args[2] = W_add THEN add_task_load(args, f, io)
    ELSE IF args[2] = W_list THEN Returned(list_tasks(f, io))
    ELSE IF args[2] = W_done THEN complete_task_load(args, f, io)
    ELSE IF args[2] = W_help THEN Exited("Ok", print_help)
    ELSE Exited("Ok", << <<"Error: Unknown command '{}'", args[2]>> >> \o print_help)

\* The handler from its call of load_todos, which returned `loaded`, on.
main_save(args, loaded, f, io) ==
    IF args[2] = W_add THEN add_task_save(args, loaded, f, io)
    ELSE complete_task_save(args, loaded, f, io)

\* st is what main_load returned.
main_rest(args, st, f, io) ==
    IF st.pc = "exited" THEN Outcome(f, st.exit, st.out, 0)
    ELSE main_save(args, st.todos, f, io)

\* One whole run of the program.
main(args, f, io) == main_rest(args, main_load(args, f, io), f, io)

(***************************************************************************)
(* Inputs: the argument lists the steps choose from.                       *)
(***************************************************************************)
Prog == <<"t", "o", "d", "o", "_", "c", "l", "i">>
T_a == <<"a">>
T_q == <<QUOTE, BSL, NL>>
T_empty == <<>>

AddArgLists ==
    { <<Prog, W_add>>,
      <<Prog, W_add, T_a, T_q>>,
      <<Prog, W_add, T_empty>> }

ListArgLists == { <<Prog, W_list>>, <<Prog, W_list, T_a>> }

NumberTokens ==
    { <<"1">>, <<"2">>, <<"3">>, <<"4">>, <<"0">>, <<"0", "2">>, <<"+", "1">>,
      <<"-", "1">>, <<"a", "b", "c">>, <<"1", "a">>, <<"1", SP>>, <<"+">>,
      <<>>, <<"9", "9", "9">> }

DoneArgLists ==
    { <<Prog, W_done>> }
    \cup { <<Prog, W_done, t>> : t \in NumberTokens }
    \cup { <<Prog, W_done, <<"1">>, <<"2">>>>, <<Prog, W_done, <<"2">>, T_a>>,
           <<Prog, W_done, T_a, <<"1">>>> }

HelpArgLists == { <<Prog, W_help>>, <<Prog, W_help, T_a>> }

UnknownArgLists ==
    { <<Prog, <<"A", "d", "d">>>>, <<Prog, <<"d", "o", "n">>, <<"1">>>>,
      <<Prog, <<>>>>, <<Prog, <<"r", "m">>, <<"1">>>> }

NoArgLists == { <<Prog>> }

ConcArgLists ==
    { <<Prog, W_add, T_empty>>, <<Prog, W_add, T_a, T_q>>,
      <<Prog, W_done, <<"1">>>>, <<Prog, W_done, <<"2">>>>,
      <<Prog, W_done, <<"0">>>>, <<Prog, W_list>> }

(***************************************************************************)
(* Initial files.                                                          *)
(***************************************************************************)
Descriptions ==
    { join(SubSeq(a, 3, Len(a)), <<SP>>) : a \in {x \in AddArgLists : Len(x) >= 3} }

TodoValues == { Todo(d, c) : d \in Descriptions, c \in BOOLEAN }

Lists(n) == UNION { [1..k -> TodoValues] : k \in 0..n }

\* Files no save of the program wrote: an empty file, a cut-off file, an
\* object without its fields, text after the array.
CorruptContents ==
    { <<>>,
      SubSeq(to_string_pretty(<<Todo(T_a, FALSE)>>), 1, 20),
      <<"[", "{", "}", "]">>,
      to_string_pretty(<<Todo(T_a, TRUE)>>) \o <<"x">> }

\* A file written by hand: valid, but not in the layout save_todos writes.
HandWritten ==
    <<"[", "{">> \o JsonString(W_completed) \o <<":">> \o W_true \o <<",">>
    \o JsonString(W_task) \o <<":">> \o JsonString(T_a) \o <<"}", "]", NL>>

InitFiles == {Absent} \cup { Present(c) : c \in CorruptContents \cup {HandWritten} }

\* Descriptions for the round trip: every string of at most two characters
\* over '"', '\' and 'n', and some longer ones.
RoundTripChars == {QUOTE, BSL, "n"}

RoundTripDescriptions ==
    {<<>>} \cup { <<c>> : c \in RoundTripChars }
    \cup { <<c1, c2>> : c1 \in RoundTripChars, c2 \in RoundTripChars }
    \cup { <<"a", SP, NL>>, <<"}", "]", QUOTE>>, <<"\t", "\r", "\f">>, T_q }

RoundTripTodos == { Todo(d, c) : d \in RoundTripDescriptions, c \in BOOLEAN }

RoundTripLists == UNION { [1..k -> RoundTripTodos] : k \in 0..MaxRoundTripTasks }

InitFilesConc ==
    {Absent, Present(<<>>)}
    \cup { Present(to_string_pretty(l)) : l \in Lists(MaxConcTasks) }

(***************************************************************************)
(* State.                                                                  *)
(*   file   the storage file todos.json;                                   *)
(*   last   the invocation of Spec that has just run, until its process is *)
(*          gone: its arguments, what the file system did, the file before *)
(*          it, and its Outcome;                                           *)
(*   procs  the two invocations of SpecConc;                               *)
(*   log    SpecConc's order of successful loads and of writes;            *)
(*   mem    SpecRoundTrip's list handed to save_todos and, after the load, *)
(*          what load_todos returned (each <<>> or a one-element tuple).   *)
(***************************************************************************)
Procs == {1, 2}

NoRun ==
    [args |-> <<>>, io |-> "ok", pre |-> Absent, exit |-> "Ok", out |-> <<>>,
     writes |-> 0]

Idle == [pc |-> "idle", args |-> <<>>, todos |-> <<>>, exit |-> "Ok", out |-> <<>>]

NoMem == [saved |-> <<>>, loaded |-> <<>>]

Init ==
    /\ file \in InitFiles
    /\ last = NoRun
    /\ procs = [p \in Procs |-> Idle]
    /\ log = <<>>
    /\ mem = NoMem

InitConc ==
    /\ file \in InitFilesConc
    /\ last = NoRun
    /\ procs = [p \in Procs |-> Idle]
    /\ log = <<>>
    /\ mem = NoMem

\* The list the file holds now, <<>> when it is absent or does not parse.
Stored(f) == load_todos(f, "ok").todos
Loads(f) == load_todos(f, "ok").kind = "Ok"

\* The process has run main to its end, with Outcome r.
Ran(args, io, r) ==
    /\ file' = r.file
    /\ last' = [args |-> args, io |-> io, pre |-> file, exit |-> r.exit,
                out |-> r.out, writes |-> r.writes]
    /\ UNCHANGED <<procs, log, mem>>

\* One whole invocation: a fresh process runs main from start to end.
Run(args, io) ==
    /\ last = NoRun
    /\ Ran(args, io, main(args, file, io))

Add ==
    /\ last = NoRun
    /\ \E args \in AddArgLists, io \in IoOutcomes :
        /\ Len(args) >= 3 => Len(Stored(file)) < MaxTasks
        /\ Run(args, io)

List == \E args \in ListArgLists, io \in {"ok", "read_err"} : Run(args, io)

Done == \E args \in DoneArgLists, io \in IoOutcomes : Run(args, io)

Help == \E args \in HelpArgLists : Run(args, "ok")

Unknown == \E args \in UnknownArgLists : Run(args, "ok")

NoArgs == \E args \in NoArgLists : Run(args, "ok")

\* The process is gone, and with it its output and exit status: nothing of
\* an invocation but the file reaches the next one.
Exit ==
    /\ last # NoRun
    /\ last' = NoRun
    /\ UNCHANGED <<file, procs, log, mem>>

Next == Add \/ List \/ Done \/ Help \/ Unknown \/ NoArgs \/ Exit

Spec == Init /\ [][Next]_vars

\* Invocation p has run up to and including its read of the file.
Started(p, args, st) ==
    /\ procs' = [procs EXCEPT ![p] = [pc |-> st.pc, args |-> args,
                    todos |-> st.todos, exit |-> st.exit, out |-> st.out]]
    /\ log' = IF st.pc = "loaded" THEN Append(log, <<p, "load">>) ELSE log
    /\ UNCHANGED <<file, last, mem>>

Start(p) ==
    /\ procs[p].pc = "idle"
    /\ \E args \in ConcArgLists, io \in {"ok", "read_err"} :
           Started(p, args, main_load(args, file, io))

\* Invocation p, which held the list it loaded, has run to its end.
Finished(p, r) ==
    /\ file' = r.file
    /\ procs' = [procs EXCEPT ![p].pc = "exited", ![p].exit = r.exit, ![p].out = r.out]
    /\ log' = IF r.writes = 1 /\ r.exit = "Ok" THEN Append(log, <<p, "save">>) ELSE log
    /\ UNCHANGED <<last, mem>>

Finish(p) ==
    /\ procs[p].pc = "loaded"
    /\ \E io \in {"ok", "write_denied", "write_trunc"} :
           Finished(p, main_save(procs[p].args, procs[p].todos, file, io))

NextConc == \E p \in Procs : Start(p) \/ Finish(p)

SpecConc == InitConc /\ [][NextConc]_vars

\* save_todos(&todos) for a list of tasks.
RoundTripSave ==
    /\ mem = NoMem
    /\ \E l \in RoundTripLists :
        /\ file' = save_todos(file, l, "ok").file
        /\ mem' = [saved |-> <<l>>, loaded |-> <<>>]
    /\ UNCHANGED <<last, procs, log>>

\* load_todos() of the file just saved.
RoundTripLoad ==
    /\ mem.saved # <<>>
    /\ mem.loaded = <<>>
    /\ mem' = [mem EXCEPT !.loaded = <<load_todos(file, "ok")>>]
    /\ UNCHANGED <<file, last, procs, log>>

NextRoundTrip == RoundTripSave \/ RoundTripLoad

InitRoundTrip ==
    /\ file \in {Absent, Present(HandWritten)}
    /\ last = NoRun
    /\ procs = [p \in Procs |-> Idle]
    /\ log = <<>>
    /\ mem = NoMem

SpecRoundTrip == InitRoundTrip /\ [][NextRoundTrip]_vars

(***************************************************************************)
(* Properties.  In Spec they are read off `last`: the invocation that has  *)
(* just run, the file before it (last.pre) and the file now.  A formula    *)
(* that reads a list off a file binds it once, as in                       *)
(* \A now \in {Stored(file)} : ..., and uses the bound value from there.   *)
(***************************************************************************)
LastIs(word) == Len(last.args) >= 2 /\ last.args[2] = word

\* The text arguments of the last invocation: those after the command word.
LastExtra == SubSeq(last.args, 3, Len(last.args))

\* The number the first extra argument denotes.
K == parse_usize(last.args[3]).num

Digits == {"0", "1", "2", "3", "4", "5", "6", "7", "8", "9"}

\* tok is a base-10 positive integer: digits, not all of them 0, after an
\* optional '+'.
IsPositiveDecimal(tok) ==
    LET ds == IF tok # <<>> /\ tok[1] = "+" THEN Tail(tok) ELSE tok IN
    /\ ds # <<>>
    /\ \A i \in 1..Len(ds) : ds[i] \in Digits
    /\ \E i \in 1..Len(ds) : ds[i] # "0"

\* desc is the tokens toks, in order, with exactly one space between
\* neighbours.
RECURSIVE IsSpaceJoin(_, _)
IsSpaceJoin(desc, toks) ==
    IF Len(toks) = 1 THEN desc = toks[1]
    ELSE /\ Len(desc) > Len(toks[1])
         /\ SubSeq(desc, 1, Len(toks[1])) = toks[1]
         /\ desc[Len(toks[1]) + 1] = SP
         /\ IsSpaceJoin(SubSeq(desc, Len(toks[1]) + 2, Len(desc)), Tail(toks))

\* now is before with one task appended: not completed, described by the
\* tokens toks joined with single spaces.
IsAppended(before, now, toks) ==
    /\ Len(now) = Len(before) + 1
    /\ SubSeq(now, 1, Len(before)) = before
    /\ ~now[Len(now)].completed
    /\ IsSpaceJoin(now[Len(now)].task, toks)

\* now is before with the task at position k completed and nothing else
\* changed.
IsCompletedAt(before, now, k) ==
    /\ Len(now) = Len(before)
    /\ now[k].completed
    /\ \A j \in 1..Len(before) :
        /\ now[j].task = before[j].task
        /\ j # k => now[j].completed = before[j].completed

\* What load_todos returns for the file before the last invocation and for
\* the file now, the file system willing.
PreLoad == load_todos(last.pre, "ok")
NowLoad == load_todos(file, "ok")

\* C1.  An `add` with at least one text argument, on a file that loads and
\* can be written, leaves the stored list as the previous list with exactly
\* one task appended: last, not completed, its description the arguments
\* after `add` joined with single spaces.
C1_Case == LastIs(W_add) /\ Len(last.args) >= 3 /\ last.io = "ok"

C1_AddAppends ==
    C1_Case =>
        \A pre \in {PreLoad}, now \in {NowLoad} :
            pre.kind = "Ok" =>
                /\ now.kind = "Ok"
                /\ IsAppended(pre.todos, now.todos, LastExtra)
                /\ last.exit = "Ok"

C1_Witness ==
    /\ C1_Case
    /\ Len(last.args) = 4
    /\ PreLoad.kind = "Ok"
    /\ Len(PreLoad.todos) = 2
    /\ Len(NowLoad.todos) = 3

\* C2.  `done k` with 1 <= k <= n on a task not yet completed (the file
\* loads and can be written) leaves the stored list with the task at
\* position k completed and everything else as it was: same length, same
\* order, same descriptions, every other flag untouched.
C2_Case ==
    /\ LastIs(W_done) /\ Len(last.args) >= 3 /\ parse_usize(last.args[3]).ok
    /\ last.io = "ok"

C2_ValidIncomplete(pre) ==
    /\ pre.kind = "Ok"
    /\ K \in 1..Len(pre.todos)
    /\ ~pre.todos[K].completed

C2_DoneCompletesOnlyK ==
    C2_Case =>
        \A pre \in {PreLoad}, now \in {NowLoad} :
            C2_ValidIncomplete(pre) =>
                /\ now.kind = "Ok"
                /\ IsCompletedAt(pre.todos, now.todos, K)

C2_Witness ==
    /\ C2_Case
    /\ \E pre \in {PreLoad}, now \in {NowLoad} :
        /\ C2_ValidIncomplete(pre)
        /\ Len(pre.todos) = 3
        /\ \E i, j \in 1..3 :
            /\ i # K /\ j # K
            /\ pre.todos[i].completed /\ now.todos[i].completed
            /\ ~pre.todos[j].completed /\ ~now.todos[j].completed

\* C3.  `done k` on a task that is already completed reports "already
\* completed", never calls save and leaves the file as it is; and right
\* after a `done k` that completed a task, the same `done k` again is such
\* a call: whatever the file system would do to a write, it reports
\* "already completed", writes nothing and leaves the file content as the
\* first call left it.
AlreadyCompleted(k) == << <<"Task {} was already completed.", k>> >>

C3_Case ==
    /\ LastIs(W_done) /\ Len(last.args) >= 3 /\ parse_usize(last.args[3]).ok
    /\ last.io # "read_err"

C3_OnCompleted(pre) ==
    /\ pre.kind = "Ok"
    /\ K \in 1..Len(pre.todos)
    /\ pre.todos[K].completed

C3_JustCompleted == LastIs(W_done) /\ last.writes = 1 /\ last.exit = "Ok"

C3_DoneIdempotent ==
    /\ C3_Case =>
            \A pre \in {PreLoad} :
                C3_OnCompleted(pre) =>
                    /\ last.writes = 0
                    /\ file = last.pre
                    /\ last.out = AlreadyCompleted(K)
                    /\ last.exit = "Ok"
    /\ C3_JustCompleted =>
            \A io \in {"ok", "write_denied", "write_trunc"} :
                main(last.args, file, io) = Outcome(file, "Ok", AlreadyCompleted(K), 0)

C3_Witness ==
    /\ C3_Case
    /\ last.io = "write_trunc"
    /\ \E pre \in {PreLoad} : C3_OnCompleted(pre) /\ Len(pre.todos) = 2
    /\ last.out = AlreadyCompleted(2)

\* C4.  A user input error writes nothing, leaves the file as it is, prints
\* a message and ends with success: `add` without text; `done` without a
\* number, with a token that is not a number, with zero, with a negative
\* number, or (the file loading) with a number beyond the end of the list;
\* and any unknown command word.
C4_BadArguments ==
    \/ LastIs(W_add) /\ Len(last.args) < 3
    \/ LastIs(W_done) /\ Len(last.args) < 3
    \/ LastIs(W_done) /\ Len(last.args) >= 3 /\ ~IsPositiveDecimal(last.args[3])
    \/ Len(last.args) >= 2 /\ last.args[2] \notin {W_add, W_list, W_done, W_help}

C4_NumberGiven ==
    /\ LastIs(W_done) /\ Len(last.args) >= 3 /\ IsPositiveDecimal(last.args[3])
    /\ last.io # "read_err"

C4_BeyondEnd(pre) == pre.kind = "Ok" /\ K > Len(pre.todos)

C4_Unchanged ==
    /\ last.writes = 0
    /\ file = last.pre
    /\ last.exit = "Ok"
    /\ last.out # <<>>

C4_InputErrorsChangeNothing ==
    /\ C4_BadArguments => C4_Unchanged
    /\ C4_NumberGiven => \A pre \in {PreLoad} : C4_BeyondEnd(pre) => C4_Unchanged

C4_Witness ==
    /\ C4_NumberGiven
    /\ last.args[3] = <<"9", "9", "9">>
    /\ \E pre \in {PreLoad} : C4_BeyondEnd(pre) /\ Len(pre.todos) = 3
    /\ last.out = << <<"Error: No task found with number {}.", 999>> >>

\* C5.  A command that loads (`add` with text, `list`, `done` with a
\* positive number) and whose load fails, because the file is there but
\* does not parse or because reading fails otherwise, ends abnormally and
\* writes nothing: the file stays exactly as it was.  An absent file is
\* read as the empty list and the command goes on.
C5_Loads ==
    \/ LastIs(W_add) /\ Len(last.args) >= 3
    \/ LastIs(W_list)
    \/ LastIs(W_done) /\ Len(last.args) >= 3 /\ IsPositiveDecimal(last.args[3])

C5_Aborted ==
    /\ last.exit # "Ok"
    /\ last.writes = 0
    /\ file = last.pre
    /\ last.out = <<>>

C5_FailedLoadAborts ==
    /\ (C5_Loads /\ last.io = "read_err") => C5_Aborted
    /\ (C5_Loads /\ last.pre.exists /\ ~C5_Aborted) => from_str(last.pre.content).ok
    /\ (C5_Loads /\ ~last.pre.exists /\ last.io = "ok") =>
            /\ last.exit = "Ok"
            /\ LastIs(W_add) => IsAppended(<<>>, Stored(file), LastExtra)
            /\ LastIs(W_list) =>
                   last.out = << <<"No tasks yet! Add one with the 'add' command.">> >>
            /\ LastIs(W_done) =>
                   last.out = << <<"Error: No task found with number {}.", K>> >>

C5_Witness ==
    /\ C5_Loads
    /\ LastIs(W_add)
    /\ last.io = "ok"
    /\ last.pre.content = to_string_pretty(<<Todo(T_a, TRUE)>>) \o <<"x">>
    /\ ~from_str(last.pre.content).ok
    /\ last.exit = "panic"
    /\ C5_Aborted

\* C6.  When two changing invocations both load before either saves, the
\* file in the end is exactly what the last writer wrote: the list it
\* loaded (the same list the other loaded) with its own change and nothing
\* of the other's; the two changes are not merged.
C6_Race ==
    /\ Len(log) = 4
    /\ log[1][2] = "load" /\ log[2][2] = "load"
    /\ log[3][2] = "save" /\ log[4][2] = "save"

LastWriter == log[4][1]
FirstWriter == log[3][1]

C6_LastWriterWins ==
    C6_Race =>
        \A base \in {procs[LastWriter].todos}, args \in {procs[LastWriter].args},
           now \in {NowLoad} :
            /\ procs[FirstWriter].todos = base
            /\ now.kind = "Ok"
            /\ file.content = to_string_pretty(now.todos)
            /\ IF args[2] = W_add
               THEN IsAppended(base, now.todos, SubSeq(args, 3, Len(args)))
               ELSE IsCompletedAt(base, now.todos, parse_usize(args[3]).num)

C6_Witness ==
    /\ C6_Race
    /\ procs[LastWriter].args[2] = W_add
    /\ procs[FirstWriter].args = <<Prog, W_done, <<"1">>>>
    /\ \E now \in {NowLoad} : Len(now.todos) = 2 /\ ~now.todos[1].completed

\* C7.  From one point of a sequential run to the next (the file before an
\* invocation and the file after it), every position of the stored list
\* keeps its task: the description at position k does not change and no
\* task moves, however many tasks are added; so a `done k` that completes a
\* task completes the one that was at position k.
KeepsTasks(before, now) ==
    \A k \in 1..Len(before) :
        /\ k <= Len(now)
        /\ now[k].task = before[k].task

C7_IndexStable ==
    (last # NoRun /\ file # last.pre) =>
        \A pre \in {PreLoad}, now \in {NowLoad} :
            /\ (pre.kind = "Ok" /\ now.kind = "Ok") => KeepsTasks(pre.todos, now.todos)
            /\ (LastIs(W_done) /\ last.exit = "Ok") =>
                    /\ ~pre.todos[K].completed
                    /\ now.todos[K] = Todo(pre.todos[K].task, TRUE)

C7_Witness ==
    /\ LastIs(W_done) /\ last.writes = 1 /\ last.exit = "Ok"
    /\ K = 1
    /\ \E pre \in {PreLoad}, now \in {NowLoad} :
        /\ Len(now.todos) = 3
        /\ now.todos[1] = Todo(<<>>, TRUE)
        /\ now.todos[3].task = join(<<T_a, T_q>>, <<SP>>)
        /\ pre.todos[1] = Todo(<<>>, FALSE)

\* C8.  save_todos followed by load_todos returns the list that was saved:
\* same length, same order, same descriptions, same flags.
C8_RoundTrip ==
    mem.loaded # <<>> => mem.loaded[1] = [kind |-> "Ok", todos |-> mem.saved[1]]

C8_Witness ==
    /\ mem.loaded # <<>>
    /\ Len(mem.saved[1]) = 2
    /\ mem.saved[1][1] = Todo(<<BSL, QUOTE>>, TRUE)
    /\ mem.saved[1][2] = Todo(<<"a", SP, NL>>, FALSE)
    /\ mem.loaded[1].todos = mem.saved[1]

\* C9 as stated: `done` marks a task complete only when the arguments
\* after `done` are exactly one token, a positive integer.
C9_ExactlyOneArgument ==
    (LastIs(W_done) /\ last.writes >= 1) =>
        /\ Len(last.args) = 3
        /\ IsPositiveDecimal(last.args[3])

\* C9, amended.  `done` marks a task complete only when there is at least
\* one argument after `done` and the first is a positive integer; the
\* arguments after the first are ignored, so the invocation does what the
\* same invocation without them does.
C9_FirstArgumentDecides ==
    /\ (LastIs(W_done) /\ last.writes >= 1) =>
            /\ Len(last.args) >= 3
            /\ IsPositiveDecimal(last.args[3])
    /\ (LastIs(W_done) /\ Len(last.args) > 3) =>
            main(SubSeq(last.args, 1, 3), last.pre, last.io)
                = Outcome(file, last.exit, last.out, last.writes)

C9_Witness ==
    /\ last.args = <<Prog, W_done, <<"1">>, <<"2">>>>
    /\ last.writes = 1
    /\ last.exit = "Ok"
    /\ NowLoad.todos[1].completed
    /\ ~PreLoad.todos[1].completed

\* C10.  In a sequential run in which no write is cut short, from the file
\* before an invocation to the file after it the stored list never shrinks,
\* no task changes and no flag goes from completed back to not completed.
KeepsCompleted(before, now) ==
    \A k \in 1..Len(before) : before[k].completed => now[k].completed

C10_Monotone ==
    (last # NoRun /\ file # last.pre /\ last.io # "write_trunc") =>
        \A pre \in {PreLoad}, now \in {NowLoad} :
            pre.kind = "Ok" =>
                /\ now.kind = "Ok"
                /\ Len(now.todos) >= Len(pre.todos)
                /\ KeepsTasks(pre.todos, now.todos)
                /\ KeepsCompleted(pre.todos, now.todos)

C10_Witness ==
    /\ LastIs(W_done) /\ last.writes = 1 /\ last.exit = "Ok"
    /\ K = 2
    /\ \E pre \in {PreLoad}, now \in {NowLoad} :
        /\ pre.todos[1].completed /\ ~pre.todos[2].completed
        /\ now.todos[1].completed /\ now.todos[2].completed

====
